---- MODULE Spec2Model ----
(***************************************************************************)
(* A model of mashup_core.py and of main of 102303982.py: one run of      *)
(* create_mashup, from the raw                                             *)
(* request to the merged output file, with the search/download service,    *)
(* the transcoder and the file system as nondeterministic collaborators.   *)
(*                                                                         *)
(* Candidates are identified by their discovery rank (1 is the best        *)
(* ranked); the search service is taken to return distinct video ids, so   *)
(* the rank also names the downloaded file and the trimmed clip made from  *)
(* it.  Strings that the code inspects (the singer, numeric text, the      *)
(* output suffix) are sequences of one-character strings.                  *)
(***************************************************************************)
EXTENDS Integers, Sequences, FiniteSets, TLC

(***************************************************************************)
(* Program constants                                                       *)
(***************************************************************************)
MinVideos == 10
MinClipSeconds == 20
StableAttempts == 20
UnlockAttempts == 60
MinSearch == 20
ArgCount == 4

(***************************************************************************)
(* Bounds of the model                                                     *)
(***************************************************************************)
\* the search service returns at most MaxCand usable entries
MaxCand == 11
\* at most MaxEmpty empty entries are filtered out of a search result
MaxEmpty == 1
\* download_audio_from_search called on its own is asked for 0..MaxTarget files
MaxTarget == 3
\* trim_audios called on its own is given at most MaxFiles paths
MaxFiles == 3
\* validate_inputs called on its own is tried this far around its thresholds
Around == 2
\* setup_audio_backend is called at most MaxSetupCalls times in one process
MaxSetupCalls == 3
\* main is given at most MaxArgs arguments
MaxArgs == 5

(***************************************************************************)
(* Text helpers                                                            *)
(***************************************************************************)
Whitespace == {" ", "\t", "\n"}

DigitChars == <<"0", "1", "2", "3", "4", "5", "6", "7", "8", "9">>

IsDigit(c) == \E k \in 1..10 : DigitChars[k] = c

DigitVal(c) == (CHOOSE k \in 1..10 : DigitChars[k] = c) - 1

RECURSIVE LStrip(_)
LStrip(s) ==
    IF Len(s) > 0 /\ Head(s) \in Whitespace THEN LStrip(Tail(s)) ELSE s

RECURSIVE RStrip(_)
RStrip(s) ==
    IF Len(s) > 0 /\ s[Len(s)] \in Whitespace
    THEN RStrip(SubSeq(s, 1, Len(s) - 1))
    ELSE s

\* str.strip()
Strip(s) == RStrip(LStrip(s))

RECURSIVE DigitsValue(_, _)
DigitsValue(s, acc) ==
    IF Len(s) = 0 THEN acc
    ELSE DigitsValue(Tail(s), acc * 10 + DigitVal(Head(s)))

AllDigits(s) == Len(s) > 0 /\ \A k \in 1..Len(s) : IsDigit(s[k])

\* int(text): surrounding whitespace and one leading sign are accepted
IntLiteralBody(s) == IF Len(s) > 0 /\ Head(s) \in {"-", "+"} THEN Tail(s) ELSE s

IsIntLiteral(text) == AllDigits(IntLiteralBody(Strip(text)))

IntOfLiteral(text) ==
    LET s == Strip(text)
        v == DigitsValue(IntLiteralBody(s), 0)
    IN  IF Len(s) > 0 /\ Head(s) = "-" THEN 0 - v ELSE v

LowerChar(c) ==
    CASE c = "M" -> "m"
      [] c = "P" -> "p"
      [] c = "W" -> "w"
      [] c = "A" -> "a"
      [] c = "V" -> "v"
      [] OTHER -> c

\* str.lower()
Lower(s) == [k \in 1..Len(s) |-> LowerChar(s[k])]

Mp3Suffix == <<".", "m", "p", "3">>

(***************************************************************************)
(* Raw request values                                                      *)
(***************************************************************************)
NoneValue == [t |-> "none"]
IntValue(v) == [t |-> "int", v |-> v]
StrValue(s) == [t |-> "str", s |-> s]

RawCounts ==
    { NoneValue, StrValue(<<"a", "b">>), StrValue(<<"-", "5">>), IntValue(0),
      IntValue(10), StrValue(<<" ", "1", "1">>) }

RawDurations ==
    { StrValue(<<>>), IntValue(-1), IntValue(20), StrValue(<<"2", "1">>) }

Singers == { <<>>, <<" ", "\t">>, <<" ", "X">> }

RawSuffixes ==
    { <<>>, <<".", "w", "a", "v">>, Mp3Suffix, <<".", "M", "P", "3">> }

(***************************************************************************)
(* _coerce_positive_int and validate_inputs                                *)
(***************************************************************************)
Ok(v) == [ok |-> TRUE, v |-> v]
Fail(m) == [ok |-> FALSE, msg |-> m]

\* _coerce_positive_int(value, name)
CoercePositiveInt(value) ==
    IF value.t = "none" \/ (value.t = "str" /\ ~IsIntLiteral(value.s))
    THEN Fail("must be an integer")
    ELSE LET as_int == IF value.t = "int" THEN value.v ELSE IntOfLiteral(value.s)
         IN  IF as_int <= 0 THEN Fail("must be greater than 0") ELSE Ok(as_int)

\* validate_inputs without the test of the singer
ValidateInputsAnySinger(s, n, c) ==
    /\ ~(n <= MinVideos)
    /\ ~(c <= MinClipSeconds)

\* validate_inputs with the count compared by < instead of <=
ValidateInputsOffByOne(s, n, c) ==
    /\ ~(Len(s) = 0 \/ Len(Strip(s)) = 0)
    /\ ~(n < MinVideos)
    /\ ~(c <= MinClipSeconds)

\* validate_inputs(singer, n_videos, clip_seconds): TRUE when it returns
ValidateInputs(s, n, c) ==
    /\ ~(Len(s) = 0 \/ Len(Strip(s)) = 0)
    /\ ~(n <= MinVideos)
    /\ ~(c <= MinClipSeconds)

\* create_mashup without the suffix rewrite
KeepSuffix(suffix) == suffix

\* the suffix rewrite of create_mashup
NormalizeSuffix(suffix) ==
    IF Lower(suffix) /= Mp3Suffix THEN Mp3Suffix ELSE suffix

(***************************************************************************)
(* State                                                                   *)
(***************************************************************************)
VARIABLES
    pc,             \* position of the run inside create_mashup
    singer,         \* argument singer
    n_videos,       \* argument n_videos, rebound to the coerced integer
    clip_seconds,   \* argument clip_seconds, rebound to the coerced integer
    output_suffix,  \* suffix of output_path, rebound to the normalised one
    env,            \* process environment touched by setup_audio_backend
    workspace,      \* the TemporaryDirectory and what lies under it
    query_size,     \* result count asked of the search service
    ncand,          \* len(candidates)
    idx,            \* rank of the next candidate of the fetch loop
    downloaded,     \* list downloaded, as candidate ranks
    nskipped,       \* candidates the fetch loop passed without accepting
    tidx,           \* position of the next file of the trim loop
    trimmed,        \* list trimmed_files, as candidate ranks
    trim_failed,    \* positions of the files whose trim was skipped
    manifest,       \* the concat list file written by merge_audios
    out_file,       \* the file at output_path
    err,            \* the exception propagating out of the run, or "none"
    calls,          \* external operations performed so far
    result,         \* value returned by create_mashup
    stages,         \* the stages of the run begun so far, in order
    backend,        \* what the calls of setup_audio_backend found and did
    last_fetch,     \* what the latest iteration of the fetch loop did
    poll,           \* a polling loop (_wait_for_stable, _wait_for_unlock) in steps
    cli             \* the command line entry point: arguments, output, exit status

vars ==
    << pc, singer, n_videos, clip_seconds, output_suffix, env, workspace,
       query_size, ncand, idx, downloaded, nskipped, tidx, trimmed,
       trim_failed, manifest, out_file, err, calls, result, stages, backend,
       last_fetch, poll, cli >>

requestVars == << singer, n_videos, clip_seconds, output_suffix >>
fetchVars == << query_size, ncand, idx, downloaded, nskipped >>
trimVars == << tidx, trimmed, trim_failed >>
mergeVars == << manifest, out_file >>
sideVars == << poll, cli >>

\* a stage is entered once: the first step of it records it
EnterStage(st, name) ==
    IF st /= <<>> /\ st[Len(st)] = name THEN st ELSE Append(st, name)

\* os.environ as setup_audio_backend reads and writes it
CleanEnv ==
    [FFMPEG_BINARY |-> "unset", FFPROBE_BINARY |-> "unset",
     IMAGEIO_FFMPEG_EXE |-> "unset", FFMPEG_LOCATION |-> "unset", PATH |-> <<>>]

NoBackend ==
    [ncalls |-> 0, fetches |-> 0, cached |-> FALSE, returned |-> <<>>,
     env_first |-> CleanEnv]

NoFetch == [rank |-> 0, usable |-> FALSE, invoked |-> FALSE, accepted |-> FALSE]

\* no poll made yet
ObsNone == [exists |-> FALSE, size |-> -1]

\* a polling loop: its kind, the passes of the loop made, last_size, how it
\* stands, and what the latest poll and the one before it found
NoPoll ==
    [kind |-> "none", attempt |-> 0, last_size |-> -1, status |-> "idle",
     before |-> ObsNone, latest |-> ObsNone]

NoCli == [argc |-> 0, called |-> FALSE, printed |-> "none", status |-> -1]

NoWorkspace ==
    [root |-> "absent", downloads |-> FALSE, trimmed |-> FALSE, files |-> FALSE]

NoManifest == [state |-> "absent", entries |-> <<>>, unlink_failed |-> FALSE]

NoOutput == [state |-> "absent", clips |-> <<>>]

NoResult == [returned |-> FALSE, suffix |-> <<>>]

\* the locals of create_mashup and the world before the run
InitRun ==
    /\ env = CleanEnv
    /\ stages = <<>>
    /\ backend = NoBackend
    /\ last_fetch = NoFetch
    /\ query_size = 0
    /\ ncand = 0
    /\ idx = 1
    /\ nskipped = 0
    /\ tidx = 1
    /\ trimmed = <<>>
    /\ trim_failed = {}
    /\ manifest = NoManifest
    /\ out_file = NoOutput
    /\ err = "none"
    /\ calls = {}
    /\ result = NoResult

InitLocals ==
    /\ InitRun
    /\ poll = NoPoll
    /\ cli = NoCli

Init ==
    /\ singer \in Singers
    /\ n_videos \in RawCounts
    /\ clip_seconds \in RawDurations
    /\ output_suffix \in RawSuffixes
    /\ downloaded = <<>>
    /\ pc = "start"
    /\ workspace = NoWorkspace
    /\ InitLocals

(***************************************************************************)
(* create_mashup: coercion, validation, suffix rewrite                     *)
(***************************************************************************)
\* lines 263-269; every failure here is a ValueError
Validate ==
    /\ pc = "start"
    /\ stages' = Append(stages, "validate")
    /\ LET n == CoercePositiveInt(n_videos)
           c == CoercePositiveInt(clip_seconds)
       IN  IF n.ok /\ c.ok /\ ValidateInputs(singer, n.v, c.v)
           THEN /\ n_videos' = IntValue(n.v)
                /\ clip_seconds' = IntValue(c.v)
                /\ output_suffix' = NormalizeSuffix(output_suffix)
                /\ pc' = "validated"
                /\ err' = err
           ELSE /\ pc' = "failed"
                /\ err' = "InvalidRequest"
                /\ UNCHANGED << n_videos, clip_seconds, output_suffix >>
    /\ UNCHANGED << sideVars, backend, last_fetch,
                    singer, env, workspace, fetchVars, trimVars, mergeVars,
                    calls, result >>

(***************************************************************************)
(* setup_audio_backend                                                     *)
(***************************************************************************)
\* os.environ.setdefault(name, path)
SetDefault(value, path) == IF value = "unset" THEN path ELSE value

\* imageio_ffmpeg.get_ffmpeg_exe(): the variable IMAGEIO_FFMPEG_EXE when it is
\* set, else the binary it resolves, which it resolves once per process
FfmpegExe(e) ==
    IF e.IMAGEIO_FFMPEG_EXE /= "unset" THEN e.IMAGEIO_FFMPEG_EXE
                                       ELSE "bundled_ffmpeg"

NeedsFetch(e, b) == e.IMAGEIO_FFMPEG_EXE = "unset" /\ ~b.cached

\* str(Path(ffmpeg_path).parent)
ParentDir(path) == <<"dir", path>>

\* the body of the try of setup_audio_backend, on os.environ
SetupEnv(e, path) ==
    [FFMPEG_BINARY |-> SetDefault(e.FFMPEG_BINARY, path),
     FFPROBE_BINARY |-> SetDefault(e.FFPROBE_BINARY, path),
     IMAGEIO_FFMPEG_EXE |-> SetDefault(e.IMAGEIO_FFMPEG_EXE, path),
     FFMPEG_LOCATION |-> SetDefault(e.FFMPEG_LOCATION, path),
     PATH |-> <<ParentDir(path)>> \o e.PATH]

\* one call of setup_audio_backend that finds the executable
BackendFound ==
    LET path == FfmpegExe(env)
        fetch == NeedsFetch(env, backend)
    IN  /\ env' = SetupEnv(env, path)
        /\ backend' =
               [ncalls |-> backend.ncalls + 1,
                fetches |-> IF fetch THEN backend.fetches + 1 ELSE backend.fetches,
                cached |-> backend.cached \/ fetch,
                returned |-> Append(backend.returned, path),
                env_first |-> IF backend.returned = <<>> THEN env'
                                                         ELSE backend.env_first]

\* one call of setup_audio_backend in which get_ffmpeg_exe raises: it can
\* only when it has to resolve the binary
BackendMissing ==
    /\ NeedsFetch(env, backend)
    /\ env' = env
    /\ backend' = [backend EXCEPT !.ncalls = @ + 1]

SetupAudioBackend ==
    /\ pc = "validated"
    /\ calls' = calls \cup {"locate"}
    /\ stages' = Append(stages, "locate")
    /\ \/ /\ BackendFound
          /\ pc' = "backend"
          /\ err' = err
       \/ /\ BackendMissing
          /\ pc' = "failed"
          /\ err' = "BackendUnavailable"
    /\ UNCHANGED << sideVars, last_fetch, requestVars, workspace, fetchVars,
                    trimVars, mergeVars, result >>

(***************************************************************************)
(* with tempfile.TemporaryDirectory(...) as temp_root                      *)
(***************************************************************************)
EnterWorkspace ==
    /\ pc = "backend"
    /\ stages' = Append(stages, "workspace")
    /\ workspace' = [NoWorkspace EXCEPT !.root = "present"]
    /\ calls' = calls \cup {"mkdtemp"}
    /\ pc' = "workspace"
    /\ UNCHANGED << sideVars, backend, last_fetch,
                    requestVars, env, fetchVars, trimVars, mergeVars, err,
                    result >>

\* TemporaryDirectory.__exit__: the tree is removed on every way out
RemovedWorkspace ==
    [root |-> "removed", downloads |-> FALSE, trimmed |-> FALSE, files |-> FALSE]

\* a temporary directory removed on the normal way out only
CleanupSkippedOnError == workspace

CleanupOnError == RemovedWorkspace

ExitWorkspace ==
    /\ pc \in {"unwind", "returning"}
    /\ IF pc = "unwind"
       THEN /\ workspace' = CleanupOnError
            /\ pc' = "failed"
            /\ result' = result
       ELSE /\ workspace' = RemovedWorkspace
            /\ pc' = "done"
            /\ result' = [returned |-> TRUE, suffix |-> output_suffix]
    /\ UNCHANGED << sideVars, stages, backend, last_fetch,
                    requestVars, env, fetchVars, trimVars, mergeVars, err,
                    calls >>

(***************************************************************************)
(* _search_candidates and the head of download_audio_from_search           *)
(***************************************************************************)
Max(a, b) == IF a >= b THEN a ELSE b

\* the count in the ytsearch query
SearchSize(n) == Max(n * 2, MinSearch)

\* [entry for entry in entries if entry], on the counts of the entries
FilterEntries(usable, empty) == usable

SearchResults ==
    { [usable |-> u, empty |-> e] : u \in 0..MaxCand, e \in 0..MaxEmpty }

Discover ==
    /\ pc = "workspace"
    /\ stages' = Append(stages, "discover")
    /\ workspace' = [workspace EXCEPT !.downloads = TRUE]
    /\ query_size' = SearchSize(n_videos.v)
    /\ calls' = calls \cup {"search"}
    /\ \/ /\ err' = "SearchError"
          /\ pc' = "unwind"
          /\ UNCHANGED << ncand >>
       \/ \E r \in SearchResults :
            /\ r.usable + r.empty <= SearchSize(n_videos.v)
            /\ ncand' = FilterEntries(r.usable, r.empty)
            /\ IF ncand' = 0
               THEN /\ err' = "NoCandidatesFound"
                    /\ pc' = "unwind"
               ELSE /\ err' = err
                    /\ pc' = "fetching"
    /\ UNCHANGED << sideVars, backend, last_fetch,
                    requestVars, env, idx, downloaded, nskipped, trimVars,
                    mergeVars, result >>

(***************************************************************************)
(* _wait_for_stable                                                        *)
(***************************************************************************)
ObsMissing == [exists |-> FALSE, size |-> 0]
ObsSize(s) == [exists |-> TRUE, size |-> s]

ObsValues == { ObsMissing, ObsSize(0), ObsSize(1), ObsSize(2) }

\* what the polls of one file see: two first observations, then a settled one
ObsPatterns == ObsValues \X ObsValues \X ObsValues

ObsAt(p, a) == IF a <= 2 THEN p[a] ELSE p[3]

\* one pass of the loop body: [stable, last_size]
StablePoll(last_size, o) ==
    IF ~o.exists
    THEN [stable |-> FALSE, last_size |-> last_size]
    ELSE IF o.size = last_size /\ o.size > 0
         THEN [stable |-> TRUE, last_size |-> last_size]
         ELSE [stable |-> FALSE, last_size |-> o.size]

RECURSIVE StableFrom(_, _, _)
StableFrom(p, a, last_size) ==
    IF a > StableAttempts THEN FALSE
    ELSE LET r == StablePoll(last_size, ObsAt(p, a))
         IN  IF r.stable THEN TRUE ELSE StableFrom(p, a + 1, r.last_size)

\* TRUE when _wait_for_stable returns, FALSE when it raises
WaitForStable(p) == StableFrom(p, 1, -1)

StableOutcomes == { WaitForStable(p) : p \in ObsPatterns }

(***************************************************************************)
(* The fetch loop of download_audio_from_search                            *)
(***************************************************************************)
EntryKinds == [url : BOOLEAN, id : BOOLEAN]

DownloadOutcomes == [raised : BOOLEAN, file : {"none", "mp3", "other"}]

\* a loop that is left only when the candidates are used up
FetchLoopOverExhaustedOnly(d, n, i, nc) == i > nc

\* the loop is left when the list is long enough or the candidates are used up
FetchLoopOver(d, n, i, nc) == Len(d) >= n \/ i > nc

\* the count check accepting a list one short
InsufficientOffByOne(d, n) == Len(d) < n - 1

\* the count check after the loop
Insufficient(d, n) == Len(d) < n

\* one iteration of the loop: is the download invoked, is the file accepted
FetchStep(entry, dl, stable) ==
    IF ~entry.url \/ ~entry.id
    THEN [invoked |-> FALSE, accepted |-> FALSE, file |-> FALSE]
    ELSE IF dl.raised
         THEN [invoked |-> TRUE, accepted |-> FALSE, file |-> dl.file /= "none"]
         ELSE IF dl.file = "none"
              THEN [invoked |-> TRUE, accepted |-> FALSE, file |-> FALSE]
              ELSE [invoked |-> TRUE, accepted |-> stable, file |-> TRUE]

\* the exceptions the work on one candidate or one file raises
ItemErrors ==
    { "DownloadError", "MashupError", "PermissionError", "OSError",
      "CalledProcessError" }

\* a handler written as except PermissionError
ItemCaughtPermissionOnly(kind) == kind = "PermissionError"

\* except Exception, of both loops: every one of them is caught
ItemCaught(kind) == kind \in ItemErrors

\* what the body of one iteration raises, or "none"
FetchRaised(entry, dl, stable) ==
    IF ~entry.url \/ ~entry.id THEN "none"
    ELSE IF dl.raised THEN "DownloadError"
         ELSE IF dl.file /= "none" /\ ~stable THEN "MashupError"
              ELSE "none"

FetchOne ==
    /\ pc = "fetching"
    /\ ~FetchLoopOver(downloaded, n_videos.v, idx, ncand)
    /\ \E entry \in EntryKinds, dl \in DownloadOutcomes, stable \in StableOutcomes :
         LET r == FetchStep(entry, dl, stable)
             raised == FetchRaised(entry, dl, stable)
         IN  /\ calls' = IF r.invoked THEN calls \cup {"download"} ELSE calls
             /\ last_fetch' = [rank |-> idx, usable |-> entry.url /\ entry.id,
                               invoked |-> r.invoked, accepted |-> r.accepted]
             /\ workspace' = IF r.file THEN [workspace EXCEPT !.files = TRUE]
                                       ELSE workspace
             /\ IF raised /= "none" /\ ~ItemCaught(raised)
                THEN /\ err' = raised
                     /\ pc' = "unwind"
                     /\ UNCHANGED << downloaded, nskipped, idx >>
                ELSE /\ downloaded' = IF r.accepted THEN Append(downloaded, idx)
                                                   ELSE downloaded
                     /\ nskipped' = IF r.accepted THEN nskipped ELSE nskipped + 1
                     /\ idx' = idx + 1
                     /\ UNCHANGED << pc, err >>
    /\ stages' = EnterStage(stages, "fetch")
    /\ UNCHANGED << sideVars, backend, requestVars, env, query_size, ncand,
                    trimVars, mergeVars, result >>

\* create_mashup goes from the download straight into trim_audios
AfterDownloadNoPause == "trim"

\* where create_mashup goes when download_audio_from_search returns
AfterDownload == "pause"

FetchFinish ==
    /\ pc = "fetching"
    /\ stages' = EnterStage(stages, "fetch")
    /\ last_fetch' = NoFetch
    /\ FetchLoopOver(downloaded, n_videos.v, idx, ncand)
    /\ IF Insufficient(downloaded, n_videos.v)
       THEN /\ err' = "InsufficientDownloads"
            /\ pc' = "unwind"
       ELSE /\ err' = err
            /\ pc' = AfterDownload
    /\ UNCHANGED << sideVars, backend,
                    requestVars, env, workspace, fetchVars, trimVars,
                    mergeVars, calls, result >>

\* time.sleep(5.0)
Pause ==
    /\ pc = "pause"
    /\ stages' = Append(stages, "pause")
    /\ pc' = "trim"
    /\ UNCHANGED << sideVars, backend, last_fetch,
                    requestVars, env, workspace, fetchVars, trimVars,
                    mergeVars, err, calls, result >>

(***************************************************************************)
(* trim_audios                                                             *)
(***************************************************************************)
\* the file is locked for the first `locked` attempts; the first open that
\* is not refused either succeeds or fails with another error
LockPatterns == [locked : 0..UnlockAttempts, then : {"ok", "oserror"}]

RECURSIVE UnlockFrom(_, _)
UnlockFrom(p, a) ==
    IF a > UnlockAttempts THEN "PermissionError"
    ELSE IF a <= p.locked THEN UnlockFrom(p, a + 1)
         ELSE IF p.then = "ok" THEN "ok" ELSE "OSError"

\* "ok" when _wait_for_unlock returns, else the exception it raises
WaitForUnlock(p) == UnlockFrom(p, 1)

UnlockOutcomes == { WaitForUnlock(p) : p \in LockPatterns }

\* a body that appends the clip whatever ffmpeg reports
TrimStepIgnoresFfmpeg(unlock, ffmpeg_ok) == unlock = "ok"

\* the body of the try: TRUE when the clip is appended
TrimStep(unlock, ffmpeg_ok) == unlock = "ok" /\ ffmpeg_ok

\* trimmed_files.insert(0, trimmed_path)
TrimPrepend(list, clip) == <<clip>> \o list

\* trimmed_files.append(trimmed_path)
TrimAppend(list, clip) == Append(list, clip)

TrimBegin ==
    /\ pc = "trim"
    /\ stages' = Append(stages, "trim")
    /\ workspace' = [workspace EXCEPT !.trimmed = TRUE]
    /\ tidx' = 1
    /\ trimmed' = <<>>
    /\ trim_failed' = {}
    /\ pc' = "trimming"
    /\ UNCHANGED << sideVars, backend, last_fetch,
                    requestVars, env, fetchVars, mergeVars, err, calls,
                    result >>

\* what the body of the try raises for one file, or "none"
TrimRaised(unlock, ffmpeg_ok) ==
    IF unlock /= "ok" THEN unlock
    ELSE IF ~ffmpeg_ok THEN "CalledProcessError" ELSE "none"

TrimOne ==
    /\ pc = "trimming"
    /\ tidx <= Len(downloaded)
    /\ \E unlock \in UnlockOutcomes, ffmpeg_ok \in BOOLEAN, wrote \in BOOLEAN :
         LET path == downloaded[tidx]
             ran == unlock = "ok"
             failed == unlock /= "ok" \/ ~ffmpeg_ok
             raised == TrimRaised(unlock, ffmpeg_ok)
         IN  /\ calls' = IF ran THEN calls \cup {"trim"} ELSE calls
             /\ workspace' =
                    IF ran /\ (ffmpeg_ok \/ wrote)
                    THEN [workspace EXCEPT !.files = TRUE]
                    ELSE workspace
             /\ IF raised /= "none" /\ ~ItemCaught(raised)
                THEN /\ err' = raised
                     /\ pc' = "unwind"
                     /\ UNCHANGED << trimVars >>
                ELSE /\ trimmed' = IF TrimStep(unlock, ffmpeg_ok)
                                   THEN TrimAppend(trimmed, path)
                                   ELSE trimmed
                     /\ trim_failed' = IF failed THEN trim_failed \cup {tidx}
                                                 ELSE trim_failed
                     /\ tidx' = tidx + 1
                     /\ UNCHANGED << pc, err >>
    /\ UNCHANGED << sideVars, stages, backend, last_fetch, requestVars, env,
                    fetchVars, mergeVars, result >>

\* trim_audios returning its list whatever it holds
NeverNothingTrimmed(list) == FALSE

\* not trimmed_files
NothingTrimmed(list) == list = <<>>

TrimFinish ==
    /\ pc = "trimming"
    /\ tidx > Len(downloaded)
    /\ IF NothingTrimmed(trimmed)
       THEN /\ err' = "NoClipsProduced"
            /\ pc' = "unwind"
       ELSE /\ err' = err
            /\ pc' = "merge"
    /\ UNCHANGED << sideVars, stages, backend, last_fetch,
                    requestVars, env, workspace, fetchVars, trimVars,
                    mergeVars, calls, result >>

(***************************************************************************)
(* merge_audios                                                            *)
(***************************************************************************)
\* one line of the concat list
ManifestLine(clip) == [directive |-> "file", path |-> clip]

\* the lines written last clip first
ManifestReversed(list) ==
    [k \in 1..Len(list) |-> ManifestLine(list[Len(list) + 1 - k])]

\* the lines written for trimmed_list
ManifestOf(list) == [k \in 1..Len(list) |-> ManifestLine(list[k])]

\* a concatenation that loses the last listed file
ConcatDropsLast(entries) == [k \in 1..(Len(entries) - 1) |-> entries[k].path]

\* what the concat demuxer copies into the output: the listed files, in order
ConcatOutput(entries) == [k \in 1..Len(entries) |-> entries[k].path]

\* merge_audios without the finally clause
UnlinkNever(m, unlinked) == m

\* list_path.unlink(), OSError ignored
UnlinkManifest(m, unlinked) ==
    IF unlinked THEN [m EXCEPT !.state = "removed"]
                ELSE [m EXCEPT !.unlink_failed = TRUE]

\* merge_audios without the test of the list
NeverNothingToMerge(list) == FALSE

\* not trimmed_list
NothingToMerge(list) == list = <<>>

\* lines 214-228: the empty check, the output directory, the manifest
MergeBegin ==
    /\ pc = "merge"
    /\ stages' = Append(stages, "assemble")
    /\ IF NothingToMerge(trimmed)
       THEN /\ err' = "NoClipsToMerge"
            /\ pc' = "unwind"
            /\ manifest' = manifest
            /\ calls' = calls
       ELSE /\ manifest' = [state |-> "present", entries |-> ManifestOf(trimmed),
                             unlink_failed |-> FALSE]
            /\ calls' = calls \cup {"mkdir_out", "write_manifest"}
            /\ err' = err
            /\ pc' = "concat"
    /\ UNCHANGED << sideVars, backend, last_fetch, requestVars, env, workspace,
                    fetchVars, trimVars, out_file, result >>

\* lines 230-254: the concatenation, then the unlink of the finally clause
MergeConcat ==
    /\ pc = "concat"
    /\ calls' = calls \cup {"concat", "unlink"}
    /\ \E outcome \in {"ok", "fail", "fail_partial"}, unlinked \in BOOLEAN :
         /\ manifest' = UnlinkManifest(manifest, unlinked)
         /\ IF outcome = "ok"
            THEN /\ out_file' = [state |-> "complete",
                                 clips |-> ConcatOutput(manifest.entries)]
                 /\ err' = err
                 /\ pc' = "returning"
            ELSE /\ out_file' = [state |-> IF outcome = "fail" THEN "absent"
                                                               ELSE "partial",
                                 clips |-> <<>>]
                 /\ err' = "ConcatError"
                 /\ pc' = "unwind"
    /\ UNCHANGED << sideVars, stages, backend, last_fetch,
                    requestVars, env, workspace, fetchVars, trimVars, result >>

(***************************************************************************)
(* The run                                                                 *)
(***************************************************************************)
Next ==
    \/ Validate
    \/ SetupAudioBackend
    \/ EnterWorkspace
    \/ Discover
    \/ FetchOne
    \/ FetchFinish
    \/ Pause
    \/ TrimBegin
    \/ TrimOne
    \/ TrimFinish
    \/ MergeBegin
    \/ MergeConcat
    \/ ExitWorkspace

Spec == Init /\ [][Next]_vars

(***************************************************************************)
(* download_audio_from_search called on its own                            *)
(***************************************************************************)
InitFetch ==
    /\ singer = <<"X">>
    /\ n_videos \in { IntValue(k) : k \in 0..MaxTarget }
    /\ clip_seconds = IntValue(MinClipSeconds + 1)
    /\ output_suffix = Mp3Suffix
    /\ downloaded = <<>>
    /\ pc = "workspace"
    /\ workspace = [NoWorkspace EXCEPT !.root = "present"]
    /\ InitLocals

NextFetch ==
    \/ Discover
    \/ FetchOne
    \/ FetchFinish

SpecFetch == InitFetch /\ [][NextFetch]_vars

(***************************************************************************)
(* trim_audios called on its own                                           *)
(***************************************************************************)
InputLists == UNION { [1..len -> 1..MaxFiles] : len \in 0..MaxFiles }

InitTrim ==
    /\ singer = <<"X">>
    /\ n_videos = IntValue(MinVideos + 1)
    /\ clip_seconds = IntValue(MinClipSeconds + 1)
    /\ output_suffix = Mp3Suffix
    /\ downloaded \in InputLists
    /\ pc = "trim"
    /\ workspace = [NoWorkspace EXCEPT !.root = "present"]
    /\ InitLocals

NextTrim ==
    \/ TrimBegin
    \/ TrimOne
    \/ TrimFinish

SpecTrim == InitTrim /\ [][NextTrim]_vars

(***************************************************************************)
(* merge_audios called on its own                                          *)
(***************************************************************************)
InitMerge ==
    /\ singer = <<"X">>
    /\ n_videos = IntValue(MinVideos + 1)
    /\ clip_seconds = IntValue(MinClipSeconds + 1)
    /\ output_suffix = Mp3Suffix
    /\ downloaded = <<>>
    /\ pc = "merge"
    /\ workspace = [NoWorkspace EXCEPT !.root = "present"]
    /\ poll = NoPoll
    /\ cli = NoCli
    /\ env = CleanEnv
    /\ stages = <<>>
    /\ backend = NoBackend
    /\ last_fetch = NoFetch
    /\ query_size = 0
    /\ ncand = 0
    /\ idx = 1
    /\ nskipped = 0
    /\ tidx = 1
    /\ trimmed \in InputLists
    /\ trim_failed = {}
    /\ manifest = NoManifest
    /\ out_file = NoOutput
    /\ err = "none"
    /\ calls = {}
    /\ result = NoResult

NextMerge ==
    \/ MergeBegin
    \/ MergeConcat

SpecMerge == InitMerge /\ [][NextMerge]_vars

(***************************************************************************)
(* validate_inputs called on its own                                       *)
(***************************************************************************)
Near(x) == (x - Around)..(x + Around)

ValidateSingers == Singers \cup { <<"X", " ">>, <<"\n">>, <<"a", " ", "b">> }

InitValidate ==
    /\ singer \in ValidateSingers
    /\ n_videos \in { IntValue(k) : k \in Near(MinVideos) \cup {-1, 0} }
    /\ clip_seconds \in { IntValue(k) : k \in Near(MinClipSeconds) \cup {0} }
    /\ output_suffix = Mp3Suffix
    /\ downloaded = <<>>
    /\ pc = "validate"
    /\ workspace = NoWorkspace
    /\ InitLocals

ValidateCall ==
    /\ pc = "validate"
    /\ IF ValidateInputs(singer, n_videos.v, clip_seconds.v)
       THEN /\ pc' = "accepted"
            /\ err' = err
       ELSE /\ pc' = "rejected"
            /\ err' = "InvalidRequest"
    /\ UNCHANGED << sideVars, stages, backend, last_fetch,
                    requestVars, env, workspace, fetchVars, trimVars,
                    mergeVars, calls, result >>

NextValidate == ValidateCall

SpecValidate == InitValidate /\ [][NextValidate]_vars

(***************************************************************************)
(* The polling loops _wait_for_stable and _wait_for_unlock, pass by pass     *)
(***************************************************************************)
StartPoll(kind) == [NoPoll EXCEPT !.kind = kind, !.status = "polling"]

InitWaits ==
    /\ singer = <<"X">>
    /\ n_videos = IntValue(MinVideos + 1)
    /\ clip_seconds = IntValue(MinClipSeconds + 1)
    /\ output_suffix = Mp3Suffix
    /\ downloaded = <<>>
    /\ pc = "waiting"
    /\ workspace = [NoWorkspace EXCEPT !.root = "present"]
    /\ poll \in { StartPoll("stable"), StartPoll("unlock") }
    /\ cli = NoCli
    /\ InitRun

\* a loop that counts only the polls that found the file
PassesUsedWhenPresent(attempt, o) == IF o.exists THEN attempt + 1 ELSE attempt

\* for _ in range(attempts): a pass is used up whatever the poll finds
PassesUsed(attempt, o) == attempt + 1

\* one pass of the for loop of _wait_for_stable
StablePollOnce ==
    /\ poll.kind = "stable"
    /\ poll.status = "polling"
    /\ poll.attempt < StableAttempts
    /\ \E o \in ObsValues :
         LET r == StablePoll(poll.last_size, o)
         IN  poll' = [poll EXCEPT !.attempt = PassesUsed(@, o),
                                  !.last_size = r.last_size,
                                  !.status = IF r.stable THEN "returned" ELSE "polling",
                                  !.before = poll.latest,
                                  !.latest = o]
    /\ UNCHANGED << cli, stages, backend, last_fetch, requestVars, env,
                    workspace, fetchVars, trimVars, mergeVars, pc, err, calls,
                    result >>

\* the loop has run out: raise MashupError
StableGiveUp ==
    /\ poll.kind = "stable"
    /\ poll.status = "polling"
    /\ poll.attempt >= StableAttempts
    /\ poll' = [poll EXCEPT !.status = "MashupError"]
    /\ UNCHANGED << cli, stages, backend, last_fetch, requestVars, env,
                    workspace, fetchVars, trimVars, mergeVars, pc, err, calls,
                    result >>

OpenOutcomes == {"ok", "locked", "oserror"}

\* one pass of the for loop of _wait_for_unlock: how the loop stands after
\* the open
UnlockAttempt(o) ==
    CASE o = "ok" -> "returned"
      [] o = "locked" -> "polling"
      [] OTHER -> "OSError"

UnlockOnce ==
    /\ poll.kind = "unlock"
    /\ poll.status = "polling"
    /\ poll.attempt < UnlockAttempts
    /\ \E o \in OpenOutcomes :
         poll' = [poll EXCEPT !.attempt = @ + 1, !.status = UnlockAttempt(o)]
    /\ UNCHANGED << cli, stages, backend, last_fetch, requestVars, env,
                    workspace, fetchVars, trimVars, mergeVars, pc, err, calls,
                    result >>

\* the loop has run out: raise PermissionError
UnlockGiveUp ==
    /\ poll.kind = "unlock"
    /\ poll.status = "polling"
    /\ poll.attempt >= UnlockAttempts
    /\ poll' = [poll EXCEPT !.status = "PermissionError"]
    /\ UNCHANGED << cli, stages, backend, last_fetch, requestVars, env,
                    workspace, fetchVars, trimVars, mergeVars, pc, err, calls,
                    result >>

NextWaits ==
    \/ StablePollOnce
    \/ StableGiveUp
    \/ UnlockOnce
    \/ UnlockGiveUp

SpecWaits == InitWaits /\ [][NextWaits]_vars

(***************************************************************************)
(* Runs of create_mashup and of its polling loops, with every step taken    *)
(***************************************************************************)
InitAll == Init \/ InitWaits

NextAll ==
    \/ Next
    \/ NextWaits

SpecAll == InitAll /\ [][NextAll]_vars

FairSpecAll == SpecAll /\ WF_vars(NextAll)

(***************************************************************************)
(* setup_audio_backend called on its own, several times in one process     *)
(***************************************************************************)
EnvValues == {"unset", "user_ffmpeg"}

InitBackend ==
    /\ singer = <<"X">>
    /\ n_videos = IntValue(MinVideos + 1)
    /\ clip_seconds = IntValue(MinClipSeconds + 1)
    /\ output_suffix = Mp3Suffix
    /\ downloaded = <<>>
    /\ pc = "setup"
    /\ workspace = NoWorkspace
    /\ stages = <<>>
    /\ last_fetch = NoFetch
    /\ poll = NoPoll
    /\ cli = NoCli
    /\ env \in [FFMPEG_BINARY : EnvValues, FFPROBE_BINARY : EnvValues,
                 IMAGEIO_FFMPEG_EXE : EnvValues, FFMPEG_LOCATION : EnvValues,
                 PATH : {<<>>}]
    /\ backend \in { [NoBackend EXCEPT !.cached = c] : c \in BOOLEAN }
    /\ query_size = 0
    /\ ncand = 0
    /\ idx = 1
    /\ nskipped = 0
    /\ tidx = 1
    /\ trimmed = <<>>
    /\ trim_failed = {}
    /\ manifest = NoManifest
    /\ out_file = NoOutput
    /\ err = "none"
    /\ calls = {}
    /\ result = NoResult

SetupCall ==
    /\ pc = "setup"
    /\ backend.ncalls < MaxSetupCalls
    /\ calls' = calls \cup {"locate"}
    /\ \/ /\ BackendFound
          /\ err' = "none"
       \/ /\ BackendMissing
          /\ err' = "BackendUnavailable"
    /\ UNCHANGED << sideVars, stages, last_fetch, requestVars, workspace,
                    fetchVars, trimVars, mergeVars, pc, result >>

NextBackend == SetupCall

SpecBackend == InitBackend /\ [][NextBackend]_vars

(***************************************************************************)
(* main of 102303982.py                                                    *)
(***************************************************************************)
\* the arguments as the shell hands them over: text
ArgCounts == { StrValue(<<"a", "b">>), StrValue(<<"1", "0">>), StrValue(<<" ", "1", "1">>) }

ArgDurations == { StrValue(<<>>), StrValue(<<"2", "1">>) }

ArgSuffixes == { <<>>, Mp3Suffix }

InitCli ==
    /\ cli \in { [NoCli EXCEPT !.argc = a] : a \in 0..MaxArgs }
    /\ IF cli.argc = ArgCount
       THEN /\ singer \in Singers
            /\ n_videos \in ArgCounts
            /\ clip_seconds \in ArgDurations
            /\ output_suffix \in ArgSuffixes
       ELSE /\ singer = <<>>
            /\ n_videos = StrValue(<<>>)
            /\ clip_seconds = StrValue(<<>>)
            /\ output_suffix = <<>>
    /\ downloaded = <<>>
    /\ pc = "main"
    /\ workspace = NoWorkspace
    /\ poll = NoPoll
    /\ InitRun

\* main takes four arguments and nothing else
WrongArgCountAbove(argc) == argc < ArgCount

\* len(args) != 4
WrongArgCount(argc) == argc /= ArgCount

\* lines 14-28, up to the call of create_mashup
MainStart ==
    /\ pc = "main"
    /\ IF WrongArgCount(cli.argc)
       THEN /\ cli' = [cli EXCEPT !.printed = "usage", !.status = 1]
            /\ pc' = "exited"
            /\ UNCHANGED << n_videos, clip_seconds >>
       ELSE IF ~IsIntLiteral(n_videos.s) \/ ~IsIntLiteral(clip_seconds.s)
            THEN /\ cli' = [cli EXCEPT !.printed = "error", !.status = 1]
                 /\ pc' = "exited"
                 /\ UNCHANGED << n_videos, clip_seconds >>
            ELSE /\ n_videos' = IntValue(IntOfLiteral(n_videos.s))
                 /\ clip_seconds' = IntValue(IntOfLiteral(clip_seconds.s))
                 /\ cli' = [cli EXCEPT !.called = TRUE]
                 /\ pc' = "start"
    /\ UNCHANGED << poll, stages, backend, last_fetch, singer, output_suffix,
                    env, workspace, fetchVars, trimVars, mergeVars, err, calls,
                    result >>

\* lines 29-34: create_mashup has returned or raised
MainFinish ==
    /\ pc \in {"done", "failed"}
    /\ cli.called
    /\ IF pc = "done"
       THEN cli' = [cli EXCEPT !.printed = "created", !.status = 0]
       ELSE cli' = [cli EXCEPT !.printed = "error", !.status = 1]
    /\ pc' = "exited"
    /\ UNCHANGED << poll, stages, backend, last_fetch, requestVars, env,
                    workspace, fetchVars, trimVars, mergeVars, err, calls,
                    result >>

NextCli ==
    \/ MainStart
    \/ Next
    \/ MainFinish

SpecCli == InitCli /\ [][NextCli]_vars

(***************************************************************************)
(* Properties                                                              *)
(***************************************************************************)
RunEnded == pc \in {"done", "failed"}

Blank(s) == \A k \in 1..Len(s) : s[k] \in Whitespace

\* the items of list at the positions outside dropped, in their order
RECURSIVE KeptFrom(_, _, _)
KeptFrom(list, dropped, k) ==
    IF k > Len(list) THEN <<>>
    ELSE (IF k \in dropped THEN <<>> ELSE <<list[k]>>)
            \o KeptFrom(list, dropped, k + 1)

\* ranks of candidates 1..nc, each rank above the one before it
IsRankSubsequence(clips, nc) ==
    /\ \A k \in 1..Len(clips) : clips[k] \in 1..nc
    /\ \A j, k \in 1..Len(clips) : j < k => clips[j] < clips[k]

\* C1: whenever the fetch loop of download_audio_from_search has run to its
\* end, the function either returned exactly n_videos files or raised
\* InsufficientDownloads with fewer than n_videos collected; the list never
\* holds more than n_videos files.
C1_FetchExactOrInsufficient ==
    /\ Len(downloaded) <= n_videos.v
    /\ pc = "pause" => Len(downloaded) = n_videos.v
    /\ (pc = "unwind" /\ ncand > 0) =>
            /\ err = "InsufficientDownloads"
            /\ Len(downloaded) < n_videos.v

\* C1 witness: the function returns a full list after passing over a
\* candidate that failed
C1_Witness ==
    /\ pc = "pause"
    /\ n_videos.v >= 2
    /\ Len(downloaded) = n_videos.v
    /\ nskipped > 0

\* C2: once a run that created the workspace has ended, by a return or by
\* any error, the workspace root is gone, with its download and trimmed
\* directories and every file under them.
C2_WorkspaceRemoved ==
    (RunEnded /\ "mkdtemp" \in calls) =>
        /\ workspace.root = "removed"
        /\ ~workspace.downloads
        /\ ~workspace.trimmed
        /\ ~workspace.files

\* C2 witness: a run that wrote files into the workspace and then failed in
\* the concatenation has ended with the workspace removed
C2_Witness ==
    /\ pc = "failed"
    /\ err = "ConcatError"
    /\ "download" \in calls
    /\ "trim" \in calls
    /\ workspace.root = "removed"

\* C3 as stated: a run that returns delivers an output file assembled from
\* exactly n_videos clips.
C3_CompleteOutput ==
    pc = "done" =>
        /\ out_file.state = "complete"
        /\ Len(out_file.clips) = n_videos.v

\* C3 amended: a run ends in an error raised to the caller, or in an output
\* assembled from the clips of those of the n_videos fetched files whose
\* trim succeeded, in order: at least one clip and at most n_videos, one
\* fewer for every fetched file whose trim was skipped.
C3_OutputOfTrimmedClips ==
    /\ pc = "failed" => (err /= "none" /\ ~result.returned)
    /\ pc = "done" =>
            /\ err = "none"
            /\ result.returned
            /\ out_file.state = "complete"
            /\ Len(downloaded) = n_videos.v
            /\ out_file.clips = KeptFrom(downloaded, trim_failed, 1)
            /\ Len(out_file.clips) = n_videos.v - Cardinality(trim_failed)
            /\ Len(out_file.clips) >= 1

\* C3 witness: a run returned an output with fewer clips than requested
C3_Witness ==
    /\ pc = "done"
    /\ trim_failed /= {}
    /\ Len(out_file.clips) < n_videos.v

C5_ManifestOrder ==
    /\ manifest.state /= "absent" =>
            /\ Len(manifest.entries) = Len(trimmed)
            /\ \A k \in 1..Len(trimmed) :
                   manifest.entries[k] = [directive |-> "file", path |-> trimmed[k]]
    /\ out_file.state = "complete" => IsRankSubsequence(out_file.clips, ncand)

\* C5 witness: an output of several clips, with a fetched file left out
C5_Witness ==
    /\ pc = "done"
    /\ Len(out_file.clips) >= 2
    /\ trim_failed /= {}
    /\ Len(manifest.entries) = Len(out_file.clips)

\* C6: the list trim_audios returns is its input with exactly the items
\* whose lock wait or transcoding failed removed, the others in input order;
\* the same holds of the part of the input handled so far.
C6_TrimKeepsOrder ==
    pc \in {"trimming", "merge"} =>
        trimmed = KeptFrom(SubSeq(downloaded, 1, tidx - 1), trim_failed, 1)

\* C6 witness: of three files the middle one failed and two clips are returned
C6_Witness ==
    /\ pc = "merge"
    /\ downloaded = <<3, 1, 2>>
    /\ trim_failed = {2}
    /\ trimmed = <<3, 2>>

ListedErrorKinds ==
    { "InvalidRequest", "BackendUnavailable", "NoCandidatesFound",
      "InsufficientDownloads", "NoClipsProduced", "NoClipsToMerge" }

\* C7: the error of a failed run is one of the listed error kinds.
C7_ListedErrorKindsOnly == pc = "failed" => err \in ListedErrorKinds

\* the request as the claim describes an invalid one
RequestInvalid ==
    LET n == CoercePositiveInt(n_videos)
        c == CoercePositiveInt(clip_seconds)
    IN  \/ ~n.ok
        \/ ~c.ok
        \/ n.v <= 10
        \/ c.v <= 20
        \/ Blank(singer)

\* C8: a run on an invalid request fails in validation with nothing external
\* done: no backend lookup, no workspace, no search, download or transcoding,
\* nothing written.
C8_InvalidFailsFirst ==
    (pc /= "start" /\ RequestInvalid) =>
        /\ pc = "failed"
        /\ err = "InvalidRequest"
        /\ calls = {}
        /\ workspace = NoWorkspace
        /\ env = CleanEnv
        /\ manifest = NoManifest
        /\ out_file = NoOutput

\* C8 witness: a request with a blank singer and 10 videos has failed
C8_Witness ==
    /\ pc = "failed"
    /\ err = "InvalidRequest"
    /\ Blank(singer)
    /\ n_videos = IntValue(10)

\* C9: validate_inputs accepts exactly when the singer is not blank, the
\* count is above 10 and the duration above 20, and it changes nothing.
C9_ValidateIff ==
    pc \in {"accepted", "rejected"} =>
        /\ pc = "accepted" <=>
               (~Blank(singer) /\ n_videos.v > 10 /\ clip_seconds.v > 20)
        /\ n_videos.v = 10 => pc = "rejected"
        /\ clip_seconds.v = 20 => pc = "rejected"
        /\ calls = {}
        /\ workspace = NoWorkspace
        /\ env = CleanEnv
        /\ manifest = NoManifest
        /\ out_file = NoOutput

\* C9 witness: the request at both lower boundaries is accepted
C9_Witness ==
    /\ pc = "accepted"
    /\ n_videos.v = 11
    /\ clip_seconds.v = 21
    /\ singer = <<" ", "X">>

\* C10 as stated: after a run has ended neither the workspace nor the
\* concatenation manifest exists.
C10_NoManifestLeft ==
    RunEnded =>
        /\ workspace.root /= "present"
        /\ manifest.state /= "present"

\* C10 amended: after a run has ended the workspace and all in it is gone,
\* and the manifest exists only if its deletion was attempted and failed.
C10_ManifestLeftOnlyByFailedUnlink ==
    RunEnded =>
        /\ workspace.root /= "present"
        /\ ~workspace.files
        /\ manifest.state = "present" => manifest.unlink_failed

\* C10 witness: a run returned and its manifest is still there
C10_Witness ==
    /\ pc = "done"
    /\ manifest.state = "present"
    /\ manifest.unlink_failed

StageOrder ==
    << "validate", "locate", "workspace", "discover", "fetch", "pause", "trim",
       "assemble" >>

\* the stage in which each error is raised
StageOfError(e) ==
    CASE e = "InvalidRequest" -> "validate"
      [] e = "BackendUnavailable" -> "locate"
      [] e \in {"SearchError", "NoCandidatesFound"} -> "discover"
      [] e = "InsufficientDownloads" -> "fetch"
      [] e = "NoClipsProduced" -> "trim"
      [] OTHER -> "assemble"

\* C11: the stages of a run begin in the order validate, locate, workspace,
\* discover, fetch, pause, trim, assemble, each one only after all the ones
\* before it (the trim only with the fetch loop finished on a full list and
\* the pause over); after an error the last stage begun is the one that
\* raised it, and when that stage lies before assemble nothing has been
\* written at the output path and no manifest was made.
C11_StagesInOrder ==
    /\ stages = SubSeq(StageOrder, 1, Len(stages))
    /\ Len(stages) >= 7 => Len(downloaded) = n_videos.v
    /\ err /= "none" =>
            /\ stages /= <<>>
            /\ stages[Len(stages)] = StageOfError(err)
            /\ StageOfError(err) /= "assemble" =>
                    /\ out_file = NoOutput
                    /\ manifest = NoManifest
                    /\ "concat" \notin calls

\* C11 witness: a run has failed in the trim stage after all seven stages up
\* to it, and there is no output
C11_Witness ==
    /\ pc = "failed"
    /\ err = "NoClipsProduced"
    /\ stages = SubSeq(StageOrder, 1, 7)
    /\ out_file = NoOutput

\* C12: main exits with status 0 exactly when it was given four arguments
\* and create_mashup returned; given another number of arguments it prints
\* the usage and exits with 1 and create_mashup is never called; when an
\* argument does not convert or create_mashup raises, it prints the error
\* and exits with 1.
C12_ExitStatus ==
    /\ cli.argc /= 4 => (~cli.called /\ stages = <<>> /\ calls = {})
    /\ pc = "exited" =>
            /\ cli.status \in {0, 1}
            /\ cli.status = 0 <=> (cli.argc = 4 /\ cli.called /\ result.returned)
            /\ cli.status = 0 => cli.printed = "created"
            /\ cli.argc /= 4 => (cli.printed = "usage" /\ cli.status = 1)
            /\ (cli.argc = 4 /\ ~result.returned) =>
                    (cli.printed = "error" /\ cli.status = 1)

\* C12 witness: main was given four arguments, the run returned, and main
\* has exited with 0
C12_Witness ==
    /\ pc = "exited"
    /\ cli.argc = 4
    /\ cli.called
    /\ cli.status = 0
    /\ cli.printed = "created"

\* C13: when setup_audio_backend has found the executable twice or more in
\* one process, it found the same path each time, it resolved the binary at
\* most once, and the environment is as the first of those calls left it.
C13_BackendIdempotent ==
    Len(backend.returned) >= 2 =>
        /\ \A k \in 1..Len(backend.returned) : backend.returned[k] = backend.returned[1]
        /\ backend.fetches <= 1
        /\ env = backend.env_first

\* C14: the fetch loop takes the candidates one rank after the other; it
\* invokes a download only for a candidate that has both a URL and an id,
\* and only while fewer than n_videos files are accepted; the list holds
\* exactly the accepted candidates, in rank order, and never more than
\* n_videos of them.
C14_FetchInRankOrder ==
    /\ IsRankSubsequence(downloaded, ncand)
    /\ Len(downloaded) <= n_videos.v
    /\ \A k \in 1..Len(downloaded) : downloaded[k] < idx
    /\ last_fetch.rank /= 0 =>
            /\ last_fetch.rank = idx - 1
            /\ last_fetch.invoked => last_fetch.usable
            /\ last_fetch.accepted => last_fetch.invoked
            /\ last_fetch.accepted <=>
                   (downloaded /= <<>> /\ downloaded[Len(downloaded)] = last_fetch.rank)
            /\ Len(downloaded) - (IF last_fetch.accepted THEN 1 ELSE 0) < n_videos.v

\* C14 witness: the list has just become full with a candidate passed over
\* before and candidates left untried after
C14_Witness ==
    /\ pc = "fetching"
    /\ last_fetch.accepted
    /\ n_videos.v >= 2
    /\ Len(downloaded) = n_videos.v
    /\ nskipped > 0
    /\ idx <= ncand

\* C15: when _wait_for_stable has returned, its latest poll and the poll
\* right before it both found the file, with one and the same size above
\* zero.
C15_StableOnConsecutivePolls ==
    (poll.kind = "stable" /\ poll.status = "returned") =>
        /\ poll.attempt >= 2
        /\ poll.before.exists
        /\ poll.latest.exists
        /\ poll.before.size = poll.latest.size
        /\ poll.latest.size > 0

\* C16: a step of the fetch loop or of the trim loop that passes over an
\* item keeps the run in its loop, at the next item and without an error;
\* the fetch stage is left with an error only by the count check after the
\* loop, with fewer than n_videos files accepted, and the trim stage only
\* after its loop, with no clip at all.
C16_ItemFailuresStayInside ==
    [][ /\ (pc = "fetching" /\ nskipped' > nskipped) =>
               (pc' = "fetching" /\ err' = "none" /\ idx' = idx + 1)
        /\ (pc = "trimming" /\ trim_failed' /= trim_failed) =>
               (pc' = "trimming" /\ err' = "none" /\ tidx' = tidx + 1)
        /\ (pc = "fetching" /\ pc' /= "fetching") =>
               /\ FetchLoopOver(downloaded, n_videos.v, idx, ncand)
               /\ err' /= "none" <=> Len(downloaded) < n_videos.v
               /\ err' /= "none" => err' = "InsufficientDownloads"
        /\ (pc = "trimming" /\ pc' /= "trimming") =>
               /\ tidx > Len(downloaded)
               /\ err' /= "none" <=> trimmed = <<>>
               /\ err' /= "none" => err' = "NoClipsProduced"
      ]_vars

\* C16 witness: the trim loop has passed over a file, holds a clip of
\* another, and goes on with the files left
C16_Witness ==
    /\ pc = "trimming"
    /\ err = "none"
    /\ trim_failed /= {}
    /\ trimmed /= <<>>
    /\ tidx <= Len(downloaded)

\* how many stages a run at pc still has before it
PcRank(p) ==
    CASE p = "start" -> 12
      [] p = "validated" -> 11
      [] p = "backend" -> 10
      [] p = "workspace" -> 9
      [] p = "fetching" -> 8
      [] p = "pause" -> 7
      [] p = "trim" -> 6
      [] p = "trimming" -> 5
      [] p = "merge" -> 4
      [] p = "concat" -> 3
      [] p \in {"unwind", "returning"} -> 1
      [] OTHER -> 0

\* the items the loop at pc has not taken yet
ItemsLeft ==
    CASE pc = "fetching" -> ncand + 1 - idx
      [] pc = "trimming" -> Len(downloaded) + 1 - tidx
      [] OTHER -> 0

PollBudget(kind) == IF kind = "stable" THEN StableAttempts ELSE UnlockAttempts

\* the passes a polling loop can still make, and one for its way out
PassesLeft ==
    IF poll.status = "polling" THEN PollBudget(poll.kind) - poll.attempt + 1 ELSE 0

\* a bound on the steps left
Measure == PcRank(pc) * (MaxCand + 2) + ItemsLeft + PassesLeft

Ended == RunEnded \/ (pc = "waiting" /\ poll.status /= "polling")

\* every step of a run and of a polling loop brings its end closer: the
\* steps left are bounded by a measure that every step lowers and that never
\* goes below zero
StepsBounded ==
    /\ [](/\ Measure >= 0
          /\ poll.kind = "stable" => poll.attempt <= 20
          /\ poll.kind = "unlock" => poll.attempt <= 60
          /\ pc = "fetching" => idx <= ncand + 1
          /\ pc = "trimming" => tidx <= Len(downloaded) + 1
          /\ Measure = 0 <=> Ended)
    /\ [][ /\ Measure' < Measure
           /\ (pc = "fetching" /\ pc' = "fetching") => idx' = idx + 1
           /\ (pc = "trimming" /\ pc' = "trimming") => tidx' = tidx + 1
         ]_vars

\* C17: with every step taken in its turn, every run of create_mashup and
\* every polling loop ends; a stability wait makes at most 20 polls and a
\* lock wait at most 60 opens before giving up, and the fetch loop takes each
\* candidate once and the trim loop each file once.
C17_RunsTerminate == StepsBounded /\ <>Ended

\* C17 witness: a stability wait has used all its 20 polls and given up
C17_Witness ==
    /\ poll.kind = "stable"
    /\ poll.status = "MashupError"
    /\ poll.attempt = 20

MergeEffects == {"mkdir_out", "write_manifest", "concat", "unlink"}

\* C18: merge_audios given an empty list raises NoClipsToMerge with no
\* output directory made, no manifest written and nothing else done; given
\* clips, once it is over, by a return or by the error of the concatenation,
\* the unlink of the manifest has been tried after the concatenation, and
\* the merge returns whenever the concatenation succeeded, whether or not
\* the unlink did.
C18_EmptyFirstUnlinkAlways ==
    /\ (trimmed = <<>> /\ pc /= "merge") =>
            /\ pc = "unwind"
            /\ err = "NoClipsToMerge"
            /\ manifest = NoManifest
            /\ out_file = NoOutput
            /\ calls \cap MergeEffects = {}
    /\ "write_manifest" \in calls => "mkdir_out" \in calls
    /\ "unlink" \in calls => ("concat" \in calls /\ "write_manifest" \in calls)
    /\ (trimmed /= <<>> /\ pc \in {"returning", "unwind"}) =>
            /\ calls \cap MergeEffects = MergeEffects
            /\ manifest.state = "removed" \/ manifest.unlink_failed
            /\ err \in {"none", "ConcatError"}
            /\ pc = "returning" <=> err = "none"
            /\ err = "none" <=> out_file.state = "complete"

\* C18 witness: the merge of two clips or more has returned although the
\* unlink of its manifest failed
C18_Witness ==
    /\ pc = "returning"
    /\ err = "none"
    /\ Len(trimmed) >= 2
    /\ manifest.state = "present"
    /\ manifest.unlink_failed
    /\ "unlink" \in calls

\* C19: from the call of merge_audios on, the list of clips passed to it
\* holds at least one clip and at most n_videos, and exactly n_videos less
\* the number of fetched files whose trim was skipped.
C19_ClipCount ==
    (pc \in {"merge", "concat"} \/ Len(stages) = Len(StageOrder)) =>
        /\ Len(trimmed) >= 1
        /\ Len(trimmed) <= n_videos.v
        /\ Len(downloaded) = n_videos.v
        /\ Len(trimmed) = n_videos.v - Cardinality(trim_failed)
        /\ manifest.state /= "absent" => Len(manifest.entries) = Len(trimmed)

\* C19 witness: merge_audios is at work on fewer clips than files were
\* fetched, and more than one
C19_Witness ==
    /\ pc = "concat"
    /\ trim_failed /= {}
    /\ Len(trimmed) > 1
    /\ Len(trimmed) < n_videos.v

\* C20: create_mashup never raises NoClipsToMerge: whenever it calls
\* merge_audios, and from then on, the list of clips is not empty, and
\* whenever trim_audios ended with an empty list the run failed with
\* NoClipsProduced without reaching merge_audios.
C20_NoEmptyMerge ==
    /\ err /= "NoClipsToMerge"
    /\ pc = "merge" => trimmed /= <<>>
    /\ "assemble" \in { stages[k] : k \in 1..Len(stages) } => trimmed /= <<>>
    /\ (Len(stages) = 7 /\ trimmed = <<>> /\ pc \notin {"trim", "trimming"}) =>
            err = "NoClipsProduced"

\* C20 witness: merge_audios is about to be called with a single clip, the
\* trim of every other fetched file skipped
C20_Witness ==
    /\ pc = "merge"
    /\ Len(trimmed) = 1
    /\ Cardinality(trim_failed) = n_videos.v - 1

====
